---- MODULE Spec2Model ----
(***************************************************************************)
(* CityWeatherForecastingModel (predictive_model.py): one Holt-Winters     *)
(* model per city, fitted on a train window of a date-indexed dataframe,   *)
(* and a forecast whose length is a month difference of two date strings.  *)
(***************************************************************************)
EXTENDS Integers, Sequences, FiniteSets, TLC

\* ------------------------------------------------------------------ bounds
\* longest city_list handed to the constructor
MaxCityList == 3
\* writes a caller makes to a frame returned by _get_city_data
MaxMutations == 1

\* --------------------------------------------------------- program constants
\* seasonal_periods=12 of the ExponentialSmoothing call
seasonal_periods == 12

\* ------------------------------------------------------------- date strings
\* A date string "YYYY-MM-DD" is the sequence of its ten characters.
Digits == <<"0", "1", "2", "3", "4", "5", "6", "7", "8", "9">>

DigitChar(n) == Digits[n + 1]

DigitTable ==
    [c \in {Digits[i] : i \in 1..10} |-> CHOOSE n \in 0..9 : Digits[n + 1] = c]

DigitVal(c) == DigitTable[c]

\* '%Y-%m-%d' of a (year, month, day)
DateStr(y, m, d) ==
    << DigitChar(y \div 1000), DigitChar((y \div 100) % 10),
       DigitChar((y \div 10) % 10), DigitChar(y % 10), "-",
       DigitChar(m \div 10), DigitChar(m % 10), "-",
       DigitChar(d \div 10), DigitChar(d % 10) >>

\* pd.to_datetime of a "YYYY-MM-DD" string: a Timestamp with year, month, day
to_datetime(s) ==
    [year  |-> DigitVal(s[1]) * 1000 + DigitVal(s[2]) * 100
               + DigitVal(s[3]) * 10 + DigitVal(s[4]),
     month |-> DigitVal(s[6]) * 10 + DigitVal(s[7]),
     day   |-> DigitVal(s[9]) * 10 + DigitVal(s[10])]

\* Timestamp order
TsLt(a, b) ==
    \/ a.year < b.year
    \/ a.year = b.year /\ a.month < b.month
    \/ a.year = b.year /\ a.month = b.month /\ a.day < b.day

TsLe(a, b) == a = b \/ TsLt(a, b)

\* the Timestamp n whole months after (year, month), on the given day
MonthAfter(year, month, n, day) ==
    LET k == year * 12 + (month - 1) + n
    IN  [year |-> k \div 12, month |-> (k % 12) + 1, day |-> day]

\* diff_in_months of _get_time_difference_in_months
get_time_difference_in_months_swapped(date_1, date_2) ==
    LET d1 == to_datetime(date_1)
        d2 == to_datetime(date_2)
    IN  (d2.year - d1.year) * 12 + (d2.month - d1.month)

get_time_difference_in_months(date_1, date_2) ==
    LET d1 == to_datetime(date_1)
        d2 == to_datetime(date_2)
    IN  (d1.year - d2.year) * 12 + (d1.month - d2.month)

\* keyword defaults of __init__
DefaultTrainStart == DateStr(1960, 1, 1)
DefaultTrainEnd   == DateStr(1999, 12, 1)
DefaultTestStart  == DateStr(2000, 1, 1)
DefaultTestEnd    == DateStr(2013, 12, 1)

\* kwargs.get(key, default): kwargs is a function on the keys that were passed
KwargsGet(kwargs, key, default) ==
    IF key \in DOMAIN kwargs THEN kwargs[key] ELSE default

\* target_date=None
None == << >>

\* ---------------------------------------------------------------- dataframe
\* A row of the by-city dataframe: the DatetimeIndex label dt and the columns.
\* A missing AverageTemperature is the marker "NaN".
NaN == "NaN"

Row(dt, city, country, temp) ==
    [dt |-> dt, City |-> city, Country |-> country, AverageTemperature |-> temp]

Iota(n) == [i \in 1..n |-> i]

\* A dataframe object is a frame over a block of storage: bufs[f.buf] holds
\* rows, f.idx lists the positions of the block that are the frame's rows.
FrameRows(b, f) == [i \in 1..Len(f.idx) |-> b[f.buf][f.idx[i]]]

\* self.data["City"]==city : the boolean mask over the frame's rows
CityMaskNe(rows, city) == [i \in 1..Len(rows) |-> rows[i].City # city]

CityMask(rows, city) == [i \in 1..Len(rows) |-> rows[i].City = city]

\* the positions a boolean mask selects, in their order
MaskPositions(mask) ==
    LET Selected(i) == mask[i]
    IN  SelectSeq(Iota(Len(mask)), Selected)

\* .loc[mask]: the selected rows; whether they share the storage of the frame
\* they were taken from is not promised, so the frame is one over that storage
Loc(f, mask) ==
    LET pos == MaskPositions(mask)
    IN  [buf |-> f.buf, idx |-> [i \in 1..Len(pos) |-> f.idx[pos[i]]]]

\* .copy(): the rows in storage of their own
Copy(b, f) ==
    [bufs  |-> [b EXCEPT !["copy"] = FrameRows(b, f)],
     frame |-> [buf |-> "copy", idx |-> Iota(Len(f.idx))]]

\* _get_city_data without the .copy()
get_city_data_view(b, d, city) ==
    [bufs |-> b, frame |-> Loc(d, CityMask(FrameRows(b, d), city))]

\* _get_city_data(city) on the storage b and the frame d of self.data
get_city_data(b, d, city) ==
    Copy(b, Loc(d, CityMask(FrameRows(b, d), city)))

\* data['AverageTemperature']: the column as a series of (dt, value)
Column(rows) ==
    [i \in 1..Len(rows) |-> [dt |-> rows[i].dt, value |-> rows[i].AverageTemperature]]

\* series[start:end] with date strings on a sorted DatetimeIndex: from the
\* first label >= start to the last label <= end, both inclusive
SliceByDateExclusiveEnd(s, start, end) ==
    LET a  == to_datetime(start)
        z  == to_datetime(end)
        lo == Cardinality({i \in 1..Len(s) : TsLt(s[i].dt, a)}) + 1
        hi == Cardinality({i \in 1..Len(s) : TsLt(s[i].dt, z)})
    IN  SubSeq(s, lo, hi)

SliceByDate(s, start, end) ==
    LET a  == to_datetime(start)
        z  == to_datetime(end)
        lo == Cardinality({i \in 1..Len(s) : TsLt(s[i].dt, a)}) + 1
        hi == Cardinality({i \in 1..Len(s) : TsLe(s[i].dt, z)})
    IN  SubSeq(s, lo, hi)

\* .dropna()
IsPresent(e) == e.value # NaN

dropna(s) == SelectSeq(s, IsPresent)

\* -------------------------------------------------------------------- state
VARIABLES
    bufs,         \* storage of the dataframes: "data" the caller's, "copy" the
                  \* one of the frame _get_city_data returned last
    data,         \* self.data
    city_list,    \* self.city_list
    train_start,  \* self.train_start
    train_end,    \* self.train_end
    test_start,   \* self.test_start
    test_end,     \* self.test_end
    train_data,   \* self.train_data: city -> series
    test_data,    \* self.test_data: city -> series
    models,       \* self.models: city -> fitted model
    estimator,    \* what the installed ExponentialSmoothing does where the
                  \* program leaves it to the library
    ret           \* the last call and what it returned or raised

vars == << bufs, data, city_list, train_start, train_end, test_start, test_end,
           train_data, test_data, models, estimator, ret >>

config == << data, city_list, train_start, train_end, test_start, test_end,
             estimator >>

tables == << train_data, test_data, models >>

\* the empty dict
EmptyDict == << >>

\* d[k] = v
Put(d, k, v) == [x \in DOMAIN d \cup {k} |-> IF x = k THEN v ELSE d[x]]

\* the series appended to what the key held instead of replacing it
StoreSeriesAppend(d, k, v) ==
    Put(d, k, IF k \in DOMAIN d THEN d[k] \o v ELSE v)

\* the series not stored
StoreSeriesNothing(d, k, v) == d

\* self.train_data[city] = train, self.test_data[city] = test
StoreSeries(d, k, v) == Put(d, k, v)

\* ---------------------------------------------------------------- estimator
\* ExponentialSmoothing(train, trend="add", seasonal="add",
\* seasonal_periods=12).fit(): the fitted model is a function of the series
\* it was given and of these arguments
ExponentialSmoothingFit(endog) ==
    [endog |-> endog, trend |-> "add", seasonal |-> "add",
     seasonal_periods |-> seasonal_periods]

\* an estimator that accepts every series
EstimatorAcceptsAll(endog) == FALSE

\* the estimator raises on a series too short for it; the least length it
\* accepts is the library's, between 1 and two seasonal cycles
EstimatorRaises(endog) == Len(endog) < estimator.min_nobs

\* what model.forecast(steps) can do with steps < 1, which the program does
\* not decide: the library returns nothing or raises
ZeroStepOutcomes == {"ok", "EstimatorError"}

\* model.forecast(steps): steps values, the k-th for the k-th month after the
\* last observation the model was fitted on (the data is monthly); with
\* steps < 1 the outcome is the one the library takes, zero
Forecast(model, steps, zero) ==
    LET last == model.endog[Len(model.endog)].dt
    IN  IF steps >= 1
        THEN [kind  |-> "ok",
              value |-> [k \in 1..steps |->
                           LET p == MonthAfter(last.year, last.month, k, 1)
                           IN  [year |-> p.year, month |-> p.month]]]
        ELSE [kind |-> zero, value |-> << >>]

\* ------------------------------------------------------------------ the fit
\* _prepare_train_test_data(data)
prepare_train_test_data(rows) ==
    [train |-> dropna(SliceByDate(Column(rows), train_start, train_end)),
     test  |-> dropna(SliceByDate(Column(rows), test_start, test_end))]

\* the loop of fit() from position k of city_list on: an exception of the
\* estimator leaves the loop with what the earlier iterations stored
RECURSIVE FitLoop(_, _)
FitLoop(k, st) ==
    IF k > Len(city_list) THEN st
    ELSE LET city    == city_list[k]
             got     == get_city_data(bufs, data, city)
             city_df == FrameRows(got.bufs, got.frame)
             tt      == prepare_train_test_data(city_df)
         IN  IF EstimatorRaises(tt.train)
             THEN [st EXCEPT !.kind = "EstimatorError", !.at = k]
             ELSE FitLoop(k + 1,
                    [st EXCEPT
                       !.models     = Put(@, city, ExponentialSmoothingFit(tt.train)),
                       !.train_data = StoreSeries(@, city, tt.train),
                       !.test_data  = StoreSeries(@, city, tt.test)])

\* the record of a call: op, its arguments, how it ended and what it returned;
\* again: the call before it was the same operation (fit() after fit());
\* mutations: the writes the caller made to the frame returned
Ret(op, city, target_date, kind, requested, periods, at, value) ==
    [op |-> op, city |-> city, target_date |-> target_date, kind |-> kind,
     requested |-> requested, periods |-> periods, at |-> at, value |-> value,
     again |-> FALSE, mutations |-> 0]

\* len(self.models) == 0 never true
NotFittedNever(m) == FALSE

\* len(self.models) == 0
NotFitted(m) == DOMAIN m = {}

\* ------------------------------------------------------------------- inputs
\* the cities of the dataset, and one the dataset has no row of
Cities == {"Aarhus", "Berlin"}

QueryCities == Cities \cup {"Cairo"}

CountryOf(city) == IF city = "Aarhus" THEN "Denmark" ELSE "Germany"

Temperatures == << "20.1", "21.4", "19.8" >>

\* n monthly rows of a city from 1998-01-01 on, those at the positions nans
\* without a temperature
CityRows(city, n, nans) ==
    [i \in 1..n |->
        Row(MonthAfter(1998, 1, i - 1, 1), city, CountryOf(city),
            IF i \in nans THEN NaN ELSE Temperatures[(i % 3) + 1])]

\* 26 months 1998-01..2000-02: every month of 1998 and 1999 observed ("full"),
\* one of them missing ("gappy"), all of them missing ("allnan"); no row ("none")
ShapeRows(city, shape) ==
    CASE shape = "full"   -> CityRows(city, 26, {25})
      [] shape = "gappy"  -> CityRows(city, 26, {3})
      [] shape = "allnan" -> CityRows(city, 26, 1..24)
      [] OTHER            -> << >>

\* two blocks of rows merged in date order (the dataframe sorted by its index)
RECURSIVE MergeByDate(_, _)
MergeByDate(a, b) ==
    IF a = << >> THEN b
    ELSE IF b = << >> THEN a
    ELSE IF TsLe(Head(a).dt, Head(b).dt)
         THEN << Head(a) >> \o MergeByDate(Tail(a), b)
         ELSE << Head(b) >> \o MergeByDate(a, Tail(b))

\* the dataframes handed to the constructor: grouped by city or sorted by
\* date, the dates of one city ascending in both
Datasets ==
    { ShapeRows("Aarhus", "full") \o ShapeRows("Berlin", "full"),
      MergeByDate(ShapeRows("Aarhus", "full"), ShapeRows("Berlin", "gappy")),
      MergeByDate(ShapeRows("Aarhus", "gappy"), ShapeRows("Berlin", "allnan")),
      ShapeRows("Aarhus", "full") \o ShapeRows("Berlin", "none") }

CityLists == UNION { [1..n -> Cities] : n \in 0..MaxCityList }

NoKwargs == [k \in {} |-> None]

\* the keyword arguments handed to the constructor
KwargsChoices ==
    { NoKwargs,
      [train_start |-> DateStr(1998, 7, 1), test_end |-> DateStr(2000, 2, 1)],
      [train_end |-> DateStr(1999, 10, 1), test_start |-> DateStr(2000, 1, 15),
       test_end |-> DateStr(2000, 3, 20)] }

Estimators == [min_nobs : {1, 2 * seasonal_periods}]

TargetDates ==
    { None, DateStr(1999, 11, 1), DateStr(2000, 1, 1), DateStr(2000, 1, 15),
      DateStr(2000, 3, 20), DateStr(2001, 3, 1) }

\* ------------------------------------------------------------------ actions
\* __init__(data_df, city_list, **kwargs), with the library that is installed
Construct(data_df, cl, kwargs, est) ==
    /\ bufs = [b \in {"data", "copy"} |-> IF b = "data" THEN data_df ELSE << >>]
    /\ data = [buf |-> "data", idx |-> Iota(Len(data_df))]
    /\ city_list = cl
    /\ train_start = KwargsGet(kwargs, "train_start", DefaultTrainStart)
    /\ train_end = KwargsGet(kwargs, "train_end", DefaultTrainEnd)
    /\ test_start = KwargsGet(kwargs, "test_start", DefaultTestStart)
    /\ test_end = KwargsGet(kwargs, "test_end", DefaultTestEnd)
    /\ train_data = EmptyDict
    /\ test_data = EmptyDict
    /\ models = EmptyDict
    /\ estimator = est
    /\ ret = Ret("init", "", None, "ok", FALSE, 0, 0, << >>)

Init ==
    \E data_df \in Datasets, cl \in CityLists, kwargs \in KwargsChoices,
       est \in Estimators :
        Construct(data_df, cl, kwargs, est)

\* fit()
Fit ==
    /\ LET st == FitLoop(1, [models |-> models, train_data |-> train_data,
                             test_data |-> test_data, kind |-> "ok", at |-> 0])
       IN  /\ models' = st.models
           /\ train_data' = st.train_data
           /\ test_data' = st.test_data
           /\ ret' = [Ret("fit", "", None, st.kind, FALSE, 0, st.at, << >>)
                        EXCEPT !.again = (ret.op = "fit")]
    /\ bufs' = [bufs EXCEPT !["copy"] = << >>]
    /\ UNCHANGED config

\* predict(city, target_date) reaches model.forecast with steps < 1
ZeroStepsAsked(city, target_date) ==
    /\ ~NotFitted(models)
    /\ city \in DOMAIN models
    /\ get_time_difference_in_months(
          IF target_date = None THEN test_end ELSE target_date, test_start) < 1

\* predict(city, target_date); zero is what the library does with steps < 1
Predict(city, target_date, zero) ==
    /\ zero = "ok" \/ ZeroStepsAsked(city, target_date)
    /\ ret' =
         IF NotFitted(models)
         THEN Ret("predict", city, target_date, "ValueError", FALSE, 0, 0, << >>)
         ELSE LET td == IF target_date = None THEN test_end ELSE target_date
                  predict_periods == get_time_difference_in_months(td, test_start)
              IN  IF city \notin DOMAIN models
                  THEN Ret("predict", city, target_date, "KeyError", FALSE,
                           predict_periods, 0, << >>)
                  ELSE LET f == Forecast(models[city], predict_periods, zero)
                       IN  Ret("predict", city, target_date, f.kind, TRUE,
                               predict_periods, 0, f.value)
    /\ bufs' = [bufs EXCEPT !["copy"] = << >>]
    /\ UNCHANGED << config, tables >>

Next ==
    \/ Fit
    \/ \E city \in QueryCities, target_date \in TargetDates,
          zero \in ZeroStepOutcomes :
          Predict(city, target_date, zero)

Spec == Init /\ [][Next]_vars

\* ------------------------------------------------- the selector on its own
\* a caller's own call of _get_city_data(city): the frame it gets
GetCityData(city) ==
    /\ LET got == get_city_data(bufs, data, city)
       IN  /\ bufs' = got.bufs
           /\ ret' = Ret("select", city, None, "ok", FALSE, 0, 0, got.frame)
    /\ UNCHANGED << config, tables >>

\* the caller writes a cell of the frame it got: row i, AverageTemperature
MutateResult(i) ==
    /\ ret.op = "select"
    /\ ret.mutations < MaxMutations
    /\ i \in 1..Len(ret.value.idx)
    /\ bufs' = [bufs EXCEPT ![ret.value.buf][ret.value.idx[i]].AverageTemperature = "0.0"]
    /\ ret' = [ret EXCEPT !.mutations = @ + 1]
    /\ UNCHANGED << config, tables >>

InitSelect ==
    \E data_df \in Datasets :
        Construct(data_df, << >>, NoKwargs,
                  [min_nobs |-> 1])

NextSelect ==
    \/ \E city \in QueryCities : GetCityData(city)
    \/ \E i \in 1..Len(bufs["data"]) : MutateResult(i)

SelectSpec == InitSelect /\ [][NextSelect]_vars

\* ------------------------------------------------------------------- claims
\* the dataframe the constructor was given
DataRows == FrameRows(bufs, data)

\* a Timestamp as the number yyyymmdd, and its month as a count of months
DateNumber(ts) == ts.year * 10000 + ts.month * 100 + ts.day

MonthIndex(ts) == ts.year * 12 + ts.month

\* the observations of a city with a temperature and a date in [start, end],
\* in the order of the dataframe
ExpectedSeries(city, start, end) ==
    LET Keep(r) == /\ r.City = city
                   /\ r.AverageTemperature # NaN
                   /\ DateNumber(to_datetime(start)) <= DateNumber(r.dt)
                   /\ DateNumber(r.dt) <= DateNumber(to_datetime(end))
        kept == SelectSeq(DataRows, Keep)
    IN  [i \in 1..Len(kept) |-> [dt |-> kept[i].dt, value |-> kept[i].AverageTemperature]]

\* the target date the last predict call resolved, and the months from
\* test_start's month to its month
ResolvedTarget == IF ret.target_date = None THEN test_end ELSE ret.target_date

Horizon == MonthIndex(to_datetime(ResolvedTarget)) - MonthIndex(to_datetime(test_start))

PredictOnFitCity == ret.op = "predict" /\ ret.city \in DOMAIN models

\* C1: predict on a manager whose model table is empty raises the ValueError
\* of the guard, for every city and target date, returns nothing and leaves
\* the tables and the window boundaries as they were.
C1_PredictBeforeFit ==
    [][(ret'.op = "predict" /\ DOMAIN models = {})
         => /\ ret'.kind = "ValueError"
            /\ ret'.value = << >>
            /\ ~ret'.requested
            /\ UNCHANGED << models, train_data, test_data, train_start,
                            train_end, test_start, test_end >>]_vars

C1_Witness ==
    /\ ret.op = "predict"
    /\ ret.kind = "ValueError"
    /\ ret.city = "Aarhus"
    /\ ret.target_date = None
    /\ DOMAIN models = {}

\* C2: predict for a city that has no model fails with the ValueError of the
\* guard, also when other cities have models.
C2_UnfitCityGuarded ==
    (ret.op = "predict" /\ ret.city \notin DOMAIN models)
        => ret.kind = "ValueError"

C4_LengthOneAtTestStart ==
    (PredictOnFitCity /\ ret.target_date = test_start
       /\ Len(train_data[ret.city]) >= 2 * seasonal_periods)
        => (ret.kind = "ok" /\ Len(ret.value) = 1)

\* C5: the k-th value predict returns is the forecast for the k-th month
\* after test_start's month, and the last one is the forecast for the target
\* date's month.
C5_ForecastRunsToTarget ==
    (PredictOnFitCity /\ ret.kind = "ok" /\ Horizon >= 1)
        => /\ \A k \in 1..Len(ret.value) :
                MonthIndex(ret.value[k]) = MonthIndex(to_datetime(test_start)) + k
           /\ MonthIndex(ret.value[Len(ret.value)])
                = MonthIndex(to_datetime(ResolvedTarget))

\* C6: after a fit() that completed, every city of city_list has a model, and
\* every stored train (test) series is the city's observations with a
\* temperature and a date in the train (test) window, bounds included, in
\* order; the model is fitted on the train series.
C6_FitStoresSlices ==
    /\ (ret.op = "fit" /\ ret.kind = "ok")
         => \A k \in 1..Len(city_list) : city_list[k] \in DOMAIN models
    /\ \A city \in DOMAIN models :
         /\ train_data[city] = ExpectedSeries(city, train_start, train_end)
         /\ test_data[city] = ExpectedSeries(city, test_start, test_end)
         /\ models[city].endog = train_data[city]

C6_Witness ==
    /\ ret.op = "fit"
    /\ ret.kind = "ok"
    /\ Len(city_list) >= 2
    /\ city_list[1] # city_list[2]
    /\ \E city \in DOMAIN models :
         /\ Len(train_data[city]) = 2 * seasonal_periods - 1
         /\ Len(test_data[city]) >= 1

\* the positions of the dataframe's rows of the city last selected, and the
\* rows of the frame returned
Matching == {i \in 1..Len(DataRows) : DataRows[i].City = ret.city}

SelectedRows == FrameRows(bufs, ret.value)

\* C7: _get_city_data(city) returns the rows whose City is the query, whole,
\* in their order in the dataframe (none, without an error, when no row
\* matches), and no write to the frame returned changes the dataframe.
C7_SelectCopies ==
    /\ [](ret.op = "select"
            => /\ ret.kind = "ok"
               /\ ret.mutations = 0 =>
                    /\ Len(SelectedRows) = Cardinality(Matching)
                    /\ \A k \in 1..Len(SelectedRows) :
                         \E i \in Matching :
                            /\ Cardinality({j \in Matching : j < i}) = k - 1
                            /\ SelectedRows[k] = DataRows[i])
    /\ [][DataRows' = DataRows]_vars

C7_Witness ==
    /\ ret.op = "select"
    /\ ret.city = "Berlin"
    /\ ret.mutations = 1
    /\ Len(SelectedRows) > 0
    /\ \E i \in 1..Len(DataRows) - 1 :
         DataRows[i].City = "Berlin" /\ DataRows[i + 1].City = "Aarhus"

\* a select that matches no row
C7_WitnessEmpty ==
    ret.op = "select" /\ ret.city = "Cairo" /\ SelectedRows = << >>

\* C8: a fit() right after a fit() leaves the stored train and test series
\* and the models as the first call left them, and ends as the first did.
C8_FitIdempotent ==
    [][(ret.op = "fit" /\ ret'.op = "fit")
         => /\ tables' = tables
            /\ ret'.kind = ret.kind
            /\ ret'.at = ret.at]_vars

C8_Witness ==
    /\ ret.op = "fit"
    /\ ret.again
    /\ Len(city_list) >= 2
    /\ city_list[1] # city_list[2]
    /\ DOMAIN models # {}
    /\ \E city \in DOMAIN models : Len(train_data[city]) > 0

\* a city with no temperature in the train window
NoTrainValue(city) == ExpectedSeries(city, train_start, train_end) = << >>

KeysAgree ==
    /\ DOMAIN models = DOMAIN train_data
    /\ DOMAIN models = DOMAIN test_data
    /\ DOMAIN models \subseteq {city_list[k] : k \in 1..Len(city_list)}

FitAborted == ret.op = "fit" /\ ret.kind = "EstimatorError"

\* C10 as stated: the tables have the same keys, cities of city_list, and
\* when fit() aborts at position k the cities at positions before k have
\* entries and the cities at positions from k on have none.
C10_KeysOriginal ==
    /\ KeysAgree
    /\ FitAborted =>
         \A j \in 1..Len(city_list) :
            /\ j < ret.at => city_list[j] \in DOMAIN models
            /\ j >= ret.at => city_list[j] \notin DOMAIN models

\* C10 amended: the tables have the same keys, cities of city_list, and when
\* fit() aborts at position k the keys are exactly the cities that occur at
\* a position before k (a city that also occurs from k on keeps its entry).
C10_Keys ==
    /\ KeysAgree
    /\ FitAborted =>
         DOMAIN models = {city_list[j] : j \in 1..(ret.at - 1)}

C10_Witness ==
    /\ FitAborted
    /\ ret.at = 2
    /\ Len(city_list) = 3
    /\ city_list[3] = city_list[1]
    /\ city_list[1] \in DOMAIN models

====
